---- MODULE Spec2Model ----
(***************************************************************************)
(* Model of ncdu's directory scanner, src/src/dir_scan.c.                  *)
(*                                                                         *)
(* The scanner is one sequential, recursive procedure.  It is modelled as  *)
(* a call stack of frames (dir_scan_process, dir_read, dir_walk,           *)
(* dir_scan_item, dir_scan_recurse); every action is the piece of one      *)
(* function between two calls that leave the function (a system call, a    *)
(* dir_output.item() call, a call of another scanner function).  The file  *)
(* system is the environment: the result of every system call and of       *)
(* exclude_match() is chosen when the call is made.                        *)
(***************************************************************************)
EXTENDS Integers, Sequences, FiniteSets, TLC

\* ------------------------------------------------------------------ bounds
NumNames   == 2  \* number of distinct ordinary file names
MaxEntries == 2  \* number of entries in the tree below the start directory
MaxDepth   == 2  \* deepest level (below the start) at which a directory exists
MaxDev     == 1  \* device ids are drawn from {0, MaxDev}
MaxNlink   == 2  \* link counts are drawn from {1, MaxNlink}
MaxBlocks  == 1  \* st_blocks of every object
MaxSize    == 1  \* st_size of every object

\* ------------------------------------------------------- program constants
S_BLKSIZE == 512
CH_DOT    == 46   \* '.'
CH_SLASH  == 47   \* '/'
CH_BSLASH == 92   \* '\\'

\* A file name is a sequence of character codes.  Ordinary names are "a",
\* ".b", "c", ".d", ...: every second one is a hidden file, which the
\* listing must keep.
\* (96 + i is the i-th lower-case letter.)
PlainName(i) == IF i % 2 = 0 THEN <<CH_DOT, 96 + i>> ELSE <<96 + i>>
PlainNames == { PlainName(i) : i \in 1..NumNames }
DotNames == { <<CH_DOT>>, <<CH_DOT, CH_DOT>> }
\* A name with a path separator in it: only Cygwin's /proc/registry has them.
SlashNames == { <<97, CH_SLASH>> }

\* Names readdir() can return on this platform.
DirentNames(cyg) == PlainNames \cup DotNames \cup (IF cyg THEN SlashNames ELSE {})

Modes == {"REG", "DIR", "OTHER"}
Devs == {0, MaxDev}
\* struct stat, the fields the scanner reads.  The scanner copies st_blocks and
\* st_size and never branches on them: one non-zero sample of each is enough.
StatRecs == [mode : Modes, dev : Devs, nlink : {1, MaxNlink},
             blocks : {MaxBlocks}, size : {MaxSize}]

\* A struct stat that has not been filled in or is no longer read, and the
\* same for a struct dir.
NoStat == [mode |-> "NONE", dev |-> 0, nlink |-> 0, blocks |-> 0, size |-> 0]
NoDir == [name |-> << >>, flags |-> {}, size |-> 0, asize |-> 0, dev |-> 0]
\* A char* name list as dir_read() returns it: NULL, or the names in order.
NullList == [null |-> TRUE, names |-> << >>]
List(names) == [null |-> FALSE, names |-> names]
\* The last-error sink: NULL, or the path stored last.
NoErr == << >>
Err(path) == << path >>
RootPath == << >>
NoEvent == [kind |-> "none"]
NoOp == [call |-> "none", ok |-> TRUE]
\* What a call returned: an int, or dir_read()'s list together with *err.
RetInt(n) == [val |-> n, buf |-> NullList]
RetList(buf, err) == [val |-> err, buf |-> buf]

VARIABLES
  stack,        \* call stack of the scanner, innermost frame last
  ret,          \* value returned by the call that returned last
  pstate,       \* scan-phase flag
  dir_curpath,  \* path stack: names below the root, root = << >>
  lasterr,      \* last-error sink
  curdev,       \* static dev_t curdev
  dir_scan_smfs,\* stay on the same filesystem
  cygwin,       \* build: __CYGWIN__ defined
  cwd,          \* where the process really is: names below the start directory
  handles,      \* open DIR* handles
  unlisted,     \* entries of the tree that no listing has returned yet
  op,           \* the system call made by the last step, NoOp if none
  ev,           \* the dir_output.item() call made by the last step, NoEvent if none
  last,         \* kind of the newest dir_output.item() call so far
  balance,      \* stack replay of the event stream: opens minus closes
  open_stack,   \* entries opened (FF_DIR) and not yet closed, innermost last
  finals,       \* number of dir_output.final() calls
  final_arg,    \* argument of the newest dir_output.final() call
  cfgerr,       \* the root did not resolve, could not be entered or statted
  backFailed,   \* a chdir("..") has failed
  rooted        \* path_chdir() succeeded: cwd counts from the root of the scan

vars == << stack, ret, pstate, dir_curpath, lasterr, curdev, dir_scan_smfs,
           cygwin, cwd, handles, unlisted, op, ev, last, balance, open_stack,
           finals, final_arg, cfgerr, backFailed, rooted >>

\* variable groups for UNCHANGED
build  == << dir_scan_smfs, cygwin >>
fsys   == << cwd, handles, unlisted, backFailed, rooted >>
finalv == << finals, final_arg >>

\* --------------------------------------------------------------- helpers
Top == stack[Len(stack)]
TopIs(fn, pc) == stack # << >> /\ Top.fn = fn /\ Top.pc = pc
Front(s) == SubSeq(s, 1, Len(s) - 1)
SetTop(f) == [stack EXCEPT ![Len(stack)] = f]
Push(s, f) == Append(s, f)

\* dir_createstruct(name): a zeroed struct dir carrying the name.
dir_createstruct(name) ==
  [name |-> name, flags |-> {}, size |-> 0, asize |-> 0, dev |-> 0]

\* dir_curpath_enter(name), dir_curpath_leave()
dir_curpath_enter(path, name) == Append(path, name)
dir_curpath_leave(path) == Front(path)

\* Mutant: the sizes are set whatever the flags.
stat_to_dir_AlwaysSized(d, fs, smfs, dev0) ==
  LET f1 == d.flags \cup (IF fs.mode = "REG" THEN {"FF_FILE"}
                          ELSE IF fs.mode = "DIR" THEN {"FF_DIR"} ELSE {})
      f2 == f1 \cup (IF fs.mode # "DIR" /\ fs.nlink > 1 THEN {"FF_HLNKC"} ELSE {})
      f3 == f2 \cup (IF smfs /\ dev0 # fs.dev THEN {"FF_OTHFS"} ELSE {})
  IN  [d EXCEPT !.dev = fs.dev, !.flags = f3,
                !.size = fs.blocks * S_BLKSIZE, !.asize = fs.size]

\* Mutant: FF_HLNKC is set for any object with more than one link.
stat_to_dir_HlnkAnyType(d, fs, smfs, dev0) ==
  LET f1 == d.flags \cup (IF fs.mode = "REG" THEN {"FF_FILE"}
                          ELSE IF fs.mode = "DIR" THEN {"FF_DIR"} ELSE {})
      f2 == f1 \cup (IF fs.nlink > 1 THEN {"FF_HLNKC"} ELSE {})
      f3 == f2 \cup (IF smfs /\ dev0 # fs.dev THEN {"FF_OTHFS"} ELSE {})
      sized == f3 \cap {"FF_OTHFS", "FF_EXL"} = {}
  IN  [d EXCEPT !.dev = fs.dev,
                !.flags = f3,
                !.size = IF sized THEN fs.blocks * S_BLKSIZE ELSE @,
                !.asize = IF sized THEN fs.size ELSE @]

\* stat_to_dir(d, fs)
stat_to_dir(d, fs, smfs, dev0) ==
  LET f1 == d.flags \cup (IF fs.mode = "REG" THEN {"FF_FILE"}
                          ELSE IF fs.mode = "DIR" THEN {"FF_DIR"} ELSE {})
      f2 == f1 \cup (IF fs.mode # "DIR" /\ fs.nlink > 1 THEN {"FF_HLNKC"} ELSE {})
      f3 == f2 \cup (IF smfs /\ dev0 # fs.dev THEN {"FF_OTHFS"} ELSE {})
      sized == f3 \cap {"FF_OTHFS", "FF_EXL"} = {}
  IN  [d EXCEPT !.dev = fs.dev,
                !.flags = f3,
                !.size = IF sized THEN fs.blocks * S_BLKSIZE ELSE @,
                !.asize = IF sized THEN fs.size ELSE @]

\* strchr(d->name, '/') || strchr(d->name, '\\')
HasSeparator(name) == \E i \in 1..Len(name) : name[i] \in {CH_SLASH, CH_BSLASH}

\* the test of line 96: the name is "." or ".."
IsDotOrDotDot(name) ==
  /\ name[1] = CH_DOT
  /\ \/ Len(name) = 1
     \/ Len(name) = 2 /\ name[2] = CH_DOT

\* ------------------------------------------------------ the event consumer
\* dir_output.item(d) as the consumer sees it; path is dir_curpath at the call.
EntryEvent(d) ==
  [kind |-> "entry", name |-> d.name, path |-> dir_curpath, flags |-> d.flags,
   size |-> d.size, asize |-> d.asize]
CloseEvent == [kind |-> "close"]

\* item(d) adds d to the node that is open, and opens d when it is a directory;
\* item(NULL) closes the node opened last.  A close event tells which node it
\* closed (none when nothing was open).
WithKid(os, name) ==
  IF os = << >> THEN os ELSE [os EXCEPT ![Len(os)].kids = Append(@, name)]

Emit(e) ==
  /\ last' = e.kind
  /\ IF e.kind = "entry"
       THEN /\ ev' = e
            /\ IF "FF_DIR" \in e.flags
                 THEN /\ balance' = balance + 1
                      /\ open_stack' = Append(WithKid(open_stack, e.name),
                            [path |-> e.path, flags |-> e.flags, kids |-> << >>])
                 ELSE /\ balance' = balance
                      /\ open_stack' = WithKid(open_stack, e.name)
       ELSE /\ ev' = [kind |-> "close",
                      closed |-> IF open_stack = << >> THEN << >>
                                 ELSE << open_stack[Len(open_stack)] >>]
            /\ balance' = balance - 1
            /\ open_stack' = IF open_stack = << >> THEN << >> ELSE Front(open_stack)

NoEmit == ev' = NoEvent /\ UNCHANGED << last, balance, open_stack >>

\* ------------------------------------------------------------------ Init
Init ==
  /\ stack = << >>
  /\ ret = RetInt(0)
  /\ pstate = "ST_BROWSE"
  /\ dir_curpath = RootPath
  /\ lasterr \in {NoErr, Err(RootPath)}   \* whatever an earlier scan left
  /\ curdev \in Devs                      \* whatever an earlier scan left
  /\ dir_scan_smfs \in BOOLEAN
  /\ cygwin \in BOOLEAN
  /\ cwd = << >>
  /\ handles = 0
  /\ unlisted = MaxEntries
  /\ op = NoOp
  /\ ev = NoEvent
  /\ last = "none"
  /\ balance = 0
  /\ open_stack = << >>
  /\ finals = 0
  /\ final_arg = 0
  /\ cfgerr = FALSE
  /\ backFailed = FALSE
  /\ rooted = FALSE

\* ------------------------------------------------------- dir_scan_init()
dir_scan_init ==
  /\ pstate = "ST_BROWSE"
  /\ stack = << >>
  /\ dir_curpath' = RootPath
  /\ lasterr' = NoErr
  /\ pstate' = "ST_CALC"
  /\ op' = NoOp
  /\ NoEmit
  /\ UNCHANGED << stack, ret, curdev, cfgerr, build, fsys, finalv >>

\* ---------------------------------------------------- dir_scan_process()
\* Lines 225-233: path_real(), dir_curpath_set(), path_chdir().  Both error
\* branches are empty, so the scan goes on from wherever the process is.
Process_Resolve ==
  /\ pstate = "ST_CALC"
  /\ stack = << >>
  /\ finals = 0
  /\ \E real_ok \in BOOLEAN, chdir_ok \in BOOLEAN :
       /\ dir_curpath' = RootPath
       /\ cfgerr' = (cfgerr \/ ~real_ok \/ ~chdir_ok)
       /\ op' = [call |-> "path_chdir", ok |-> chdir_ok]
       /\ rooted' = chdir_ok
  /\ stack' = << [fn |-> "process", pc |-> "stat", fs |-> NoStat, fail |-> 0] >>
  /\ NoEmit
  /\ UNCHANGED << ret, pstate, lasterr, curdev, build, cwd, handles, unlisted,
                  backFailed, finalv >>

\* Lines 236-240: lstat(".", &fs), then the call of dir_read(&fail).  "." is
\* the directory the process is in, so a successful lstat reports a
\* directory; after a failed one fs holds whatever was on the stack.
Process_Stat ==
  /\ TopIs("process", "stat")
  /\ \E ok \in BOOLEAN, fs \in StatRecs :
       /\ ok => fs.mode = "DIR"
       /\ cfgerr' = (cfgerr \/ ~ok \/ fs.mode # "DIR")
       /\ op' = [call |-> "lstat", ok |-> ok]
       /\ stack' = Push(SetTop([Top EXCEPT !.pc = "read", !.fs = fs]),
                        [fn |-> "read", pc |-> "opendir", buf |-> << >>,
                         seen |-> {}, err |-> Top.fail])
  /\ NoEmit
  /\ UNCHANGED << ret, pstate, dir_curpath, lasterr, curdev, build, fsys, finalv >>

\* Mutant: the root is classified against the device id found in curdev, and
\* curdev is set afterwards.
Process_Open_StaleDev ==
  /\ TopIs("process", "read")
  /\ curdev' = Top.fs.dev
  /\ LET dir  == ret.buf
         fail == ret.val
         d0   == dir_createstruct(dir_curpath)
         d1   == IF fail # 0 THEN [d0 EXCEPT !.flags = @ \cup {"FF_ERR"}] ELSE d0
         d    == stat_to_dir(d1, Top.fs, dir_scan_smfs, curdev)
     IN  /\ Emit(EntryEvent(d))
         /\ stack' = Push(SetTop([Top EXCEPT !.pc = "close", !.fs = NoStat,
                                             !.fail = fail]),
                          [fn |-> "walk", pc |-> "loop", dir |-> dir, cur |-> dir,
                           fail |-> 0])
  /\ ret' = RetInt(0)
  /\ op' = NoOp
  /\ UNCHANGED << pstate, dir_curpath, lasterr, cfgerr, build, fsys, finalv >>

\* Lines 240-252, after dir_read() returned: curdev, the root's struct dir,
\* its open event, and the call of dir_walk(dir).  fs, d and dir are not read
\* after line 252, so the frame does not keep them.
Process_Open ==
  /\ TopIs("process", "read")
  /\ curdev' = Top.fs.dev
  /\ LET dir  == ret.buf
         fail == ret.val
         d0   == dir_createstruct(dir_curpath)
         d1   == IF fail # 0 THEN [d0 EXCEPT !.flags = @ \cup {"FF_ERR"}] ELSE d0
         d    == stat_to_dir(d1, Top.fs, dir_scan_smfs, curdev')
     IN  /\ Emit(EntryEvent(d))
         /\ stack' = Push(SetTop([Top EXCEPT !.pc = "close", !.fs = NoStat,
                                             !.fail = fail]),
                          [fn |-> "walk", pc |-> "loop", dir |-> dir, cur |-> dir,
                           fail |-> 0])
  /\ ret' = RetInt(0)
  /\ op' = NoOp
  /\ UNCHANGED << pstate, dir_curpath, lasterr, cfgerr, build, fsys, finalv >>

\* Lines 252-253: dir_walk() returned; the root's close event.
Process_Close ==
  /\ TopIs("process", "close")
  /\ stack' = SetTop([Top EXCEPT !.pc = "final", !.fail = ret.val])
  /\ ret' = RetInt(0)
  /\ Emit(CloseEvent)
  /\ op' = NoOp
  /\ UNCHANGED << pstate, dir_curpath, lasterr, curdev, cfgerr, build, fsys, finalv >>

\* Line 255: return dir_output.final(fail).
Process_Final ==
  /\ TopIs("process", "final")
  /\ finals' = finals + 1
  /\ final_arg' = Top.fail
  /\ stack' = Front(stack)
  /\ op' = NoOp
  /\ NoEmit
  /\ UNCHANGED << ret, pstate, dir_curpath, lasterr, curdev, cfgerr, build, fsys >>

\* ------------------------------------------------------------ dir_read()
\* Lines 87-93: opendir("."); a failure returns NULL with *err = 1.
DirRead_Open ==
  /\ TopIs("read", "opendir")
  /\ \E ok \in BOOLEAN :
       /\ op' = [call |-> "opendir", ok |-> ok]
       /\ IF ok
            THEN /\ handles' = handles + 1
                 /\ stack' = SetTop([Top EXCEPT !.pc = "readdir"])
                 /\ UNCHANGED ret
            ELSE /\ ret' = RetList(NullList, 1)
                 /\ stack' = Front(stack)
                 /\ UNCHANGED handles
  /\ NoEmit
  /\ UNCHANGED << pstate, dir_curpath, lasterr, curdev, cfgerr, build, cwd,
                  unlisted, backFailed, rooted, finalv >>

\* Mutant: a read error returns the list at once, without closedir().
DirRead_Next_ReturnOnError ==
  /\ TopIs("read", "readdir")
  /\ \/ \E name \in DirentNames(cygwin) \ Top.seen :
          /\ name \in DotNames \/ unlisted > 0
          /\ unlisted' = IF name \in DotNames THEN unlisted ELSE unlisted - 1
          /\ op' = [call |-> "readdir", ok |-> TRUE]
          /\ stack' = SetTop([Top EXCEPT
                         !.seen = @ \cup {name},
                         !.buf = IF IsDotOrDotDot(name) THEN @ ELSE Append(@, name)])
          /\ UNCHANGED ret
     \/ /\ op' = [call |-> "readdir", ok |-> TRUE]
        /\ stack' = SetTop([Top EXCEPT !.pc = "closedir"])
        /\ UNCHANGED << unlisted, ret >>
     \/ /\ op' = [call |-> "readdir", ok |-> FALSE]
        /\ ret' = RetList(List(Top.buf), 1)
        /\ stack' = Front(stack)
        /\ UNCHANGED unlisted
  /\ NoEmit
  /\ UNCHANGED << pstate, dir_curpath, lasterr, curdev, cfgerr, build, cwd,
                  handles, backFailed, rooted, finalv >>

\* Lines 95-107: one readdir() call.  It returns a name not returned before
\* ("." and ".." are skipped, any other name is appended to the buffer), or
\* NULL at the end of the directory, or NULL with errno set.
DirRead_Next ==
  /\ TopIs("read", "readdir")
  /\ \/ \E name \in DirentNames(cygwin) \ Top.seen :
          /\ name \in DotNames \/ unlisted > 0
          /\ unlisted' = IF name \in DotNames THEN unlisted ELSE unlisted - 1
          /\ op' = [call |-> "readdir", ok |-> TRUE]
          /\ stack' = SetTop([Top EXCEPT
                         !.seen = @ \cup {name},
                         !.buf = IF IsDotOrDotDot(name) THEN @ ELSE Append(@, name)])
     \/ \E errno \in {0, 1} :
          /\ op' = [call |-> "readdir", ok |-> errno = 0]
          /\ stack' = SetTop([Top EXCEPT !.pc = "closedir",
                         !.err = IF errno # 0 THEN 1 ELSE @])
          /\ UNCHANGED unlisted
  /\ NoEmit
  /\ UNCHANGED << ret, pstate, dir_curpath, lasterr, curdev, cfgerr, build, cwd,
                  handles, backFailed, rooted, finalv >>

\* Lines 108-113: closedir(), terminate the list, return it.
DirRead_Close ==
  /\ TopIs("read", "closedir")
  /\ \E ok \in BOOLEAN :
       /\ op' = [call |-> "closedir", ok |-> ok]
       /\ ret' = RetList(List(Top.buf), IF ok THEN Top.err ELSE 1)
  /\ handles' = handles - 1
  /\ stack' = Front(stack)
  /\ NoEmit
  /\ UNCHANGED << pstate, dir_curpath, lasterr, curdev, cfgerr, build, cwd,
                  unlisted, backFailed, rooted, finalv >>

\* ------------------------------------------------------------ dir_walk()
\* dir is the list as dir_read() returned it, cur the rest of it from the name
\* the loop is at.
\* Mutant: the loop stops before the last name of the list.
WalkMore_StopsBeforeLast(f) == f.fail = 0 /\ ~f.cur.null /\ Len(f.cur.names) > 1

\* for(cur=dir; !fail&&cur&&*cur; cur+=strlen(cur)+1)
WalkMore(f) == f.fail = 0 /\ ~f.cur.null /\ f.cur.names # << >>

\* Lines 205-208: the loop test holds; enter the name, create its struct dir
\* and call dir_scan_item(d).
Walk_Next ==
  /\ TopIs("walk", "loop")
  /\ WalkMore(Top)
  /\ LET cur == Head(Top.cur.names)
     IN  /\ dir_curpath' = dir_curpath_enter(dir_curpath, cur)
         /\ stack' = Push(SetTop([Top EXCEPT !.pc = "item"]),
                          [fn |-> "item", pc |-> "classify",
                           d |-> dir_createstruct(cur), fail |-> 0,
                           isdir |-> FALSE])
  /\ op' = NoOp
  /\ NoEmit
  /\ UNCHANGED << ret, pstate, lasterr, curdev, cfgerr, build, fsys, finalv >>

\* Mutant: the loop does not advance cur.
Walk_ItemDone_NoAdvance ==
  /\ TopIs("walk", "item")
  /\ stack' = SetTop([Top EXCEPT !.pc = "loop", !.fail = ret.val])
  /\ ret' = RetInt(0)
  /\ dir_curpath' = dir_curpath_leave(dir_curpath)
  /\ op' = NoOp
  /\ NoEmit
  /\ UNCHANGED << pstate, lasterr, curdev, cfgerr, build, fsys, finalv >>

\* Mutant: the name is not taken off the path stack again.
Walk_ItemDone_NoLeave ==
  /\ TopIs("walk", "item")
  /\ stack' = SetTop([Top EXCEPT !.pc = "loop", !.fail = ret.val,
                                 !.cur = List(Tail(@.names))])
  /\ ret' = RetInt(0)
  /\ op' = NoOp
  /\ NoEmit
  /\ UNCHANGED << pstate, dir_curpath, lasterr, curdev, cfgerr, build, fsys, finalv >>

\* Lines 208-209 and the loop step: dir_scan_item() returned.
Walk_ItemDone ==
  /\ TopIs("walk", "item")
  /\ stack' = SetTop([Top EXCEPT !.pc = "loop", !.fail = ret.val,
                                 !.cur = List(Tail(@.names))])
  /\ ret' = RetInt(0)
  /\ dir_curpath' = dir_curpath_leave(dir_curpath)
  /\ op' = NoOp
  /\ NoEmit
  /\ UNCHANGED << pstate, lasterr, curdev, cfgerr, build, fsys, finalv >>

\* Lines 212-213: the loop is over; free(dir); return fail.
Walk_Return ==
  /\ TopIs("walk", "loop")
  /\ ~WalkMore(Top)
  /\ ret' = RetInt(Top.fail)
  /\ stack' = Front(stack)
  /\ op' = NoOp
  /\ NoEmit
  /\ UNCHANGED << pstate, dir_curpath, lasterr, curdev, cfgerr, build, fsys, finalv >>

\* ------------------------------------------------------- dir_scan_item()
FlagErr(d) == [d EXCEPT !.flags = @ \cup {"FF_ERR"}]
FlagExl(d) == [d EXCEPT !.flags = @ \cup {"FF_EXL"}]

\* Lines 164-170: built for Cygwin, a name with a separator is an error.
IllegalName(d, cyg) == cyg /\ HasSeparator(d.name)

\* Line 175: !(d->flags & (FF_ERR|FF_EXL)), the guard of the lstat() call.
NeedStat(d) == d.flags \cap {"FF_ERR", "FF_EXL"} = {}

\* Mutant: stat_to_dir() runs on an excluded entry too.
Classifiable_IgnoresExcl(d) == "FF_ERR" \notin d.flags

\* Mutant: stat_to_dir() runs on the stat buffer whatever the flags.
Classifiable_Always(d) == TRUE

\* Line 180: !(d->flags & (FF_ERR|FF_EXL)), the guard of stat_to_dir().
Classifiable(d) == d.flags \cap {"FF_ERR", "FF_EXL"} = {}

\* Lines 164-181: the Cygwin name check, exclude_match(dir_curpath),
\* lstat(d->name, &st) unless flagged already, stat_to_dir() unless flagged.
\* isdir records whether the object named is a directory, also when the
\* scanner never learns it.
Item_Classify ==
  /\ TopIs("item", "classify")
  /\ \E excl \in BOOLEAN, ok \in BOOLEAN, st \in StatRecs, isdir \in BOOLEAN :
       LET d0     == Top.d
           bad    == IllegalName(d0, cygwin)
           d1     == IF bad THEN FlagErr(d0) ELSE d0
           d2     == IF excl THEN FlagExl(d1) ELSE d1
           called == NeedStat(d2)
           d3     == IF called /\ ~ok THEN FlagErr(d2) ELSE d2
           d4     == IF Classifiable(d3)
                       THEN stat_to_dir(d3, st, dir_scan_smfs, curdev) ELSE d3
       IN  /\ isdir => Len(cwd) < MaxDepth
           /\ (called /\ ok) => isdir = (st.mode = "DIR")
           /\ ~(called /\ ok) => st = CHOOSE r \in StatRecs : r.mode = "REG"
           /\ ~called => ok
           /\ lasterr' = IF bad \/ (called /\ ~ok) THEN Err(dir_curpath) ELSE lasterr
           /\ op' = IF called /\ ok THEN [call |-> "lstat", ok |-> ok, st |-> st]
                    ELSE IF called THEN [call |-> "lstat", ok |-> ok] ELSE NoOp
           /\ stack' = SetTop([Top EXCEPT !.pc = "dispatch", !.d = d4,
                                          !.isdir = isdir])
  /\ NoEmit
  /\ UNCHANGED << ret, pstate, dir_curpath, curdev, cfgerr, build, fsys, finalv >>

\* Mutant: a directory on another device is entered all the same.
Recursible_IgnoresOthfs(d) ==
  "FF_DIR" \in d.flags /\ d.flags \cap {"FF_ERR", "FF_EXL"} = {}

\* if(d->flags & FF_DIR && !(d->flags & (FF_ERR|FF_EXL|FF_OTHFS)))
Recursible(d) ==
  "FF_DIR" \in d.flags /\ d.flags \cap {"FF_ERR", "FF_EXL", "FF_OTHFS"} = {}

\* Lines 184-185: dir_scan_recurse(d); its return value is dropped.
Item_Recurse ==
  /\ TopIs("item", "dispatch")
  /\ Recursible(Top.d)
  /\ stack' = Push(SetTop([Top EXCEPT !.pc = "recursed"]),
                   [fn |-> "recurse", pc |-> "chdir", fail |-> 0])
  /\ op' = NoOp
  /\ NoEmit
  /\ UNCHANGED << ret, pstate, dir_curpath, lasterr, curdev, cfgerr, build, fsys,
                  finalv >>

\* Lines 186-187: a directory that is not entered: dir_output.item(d).
Item_EmitDir ==
  /\ TopIs("item", "dispatch")
  /\ ~Recursible(Top.d)
  /\ "FF_DIR" \in Top.d.flags
  /\ Emit(EntryEvent(Top.d))
  /\ stack' = SetTop([Top EXCEPT !.pc = "close"])
  /\ op' = NoOp
  /\ UNCHANGED << ret, pstate, dir_curpath, lasterr, curdev, cfgerr, build, fsys,
                  finalv >>

\* Line 188: dir_output.item(NULL).
Item_Close ==
  /\ TopIs("item", "close")
  /\ Emit(CloseEvent)
  /\ stack' = SetTop([Top EXCEPT !.pc = "ret"])
  /\ op' = NoOp
  /\ UNCHANGED << ret, pstate, dir_curpath, lasterr, curdev, cfgerr, build, fsys,
                  finalv >>

\* Lines 189-190: anything else: dir_output.item(d).
Item_EmitLeaf ==
  /\ TopIs("item", "dispatch")
  /\ "FF_DIR" \notin Top.d.flags
  /\ Emit(EntryEvent(Top.d))
  /\ stack' = SetTop([Top EXCEPT !.pc = "ret"])
  /\ op' = NoOp
  /\ UNCHANGED << ret, pstate, dir_curpath, lasterr, curdev, cfgerr, build, fsys,
                  finalv >>

\* Mutant: an entry flagged FF_ERR makes dir_scan_item() return 1.
Item_Return_ErrFatal ==
  /\ TopIs("item", "ret") \/ TopIs("item", "recursed")
  /\ ret' = RetInt(IF Top.pc = "ret" /\ "FF_ERR" \in Top.d.flags THEN 1 ELSE Top.fail)
  /\ stack' = Front(stack)
  /\ op' = NoOp
  /\ NoEmit
  /\ UNCHANGED << pstate, dir_curpath, lasterr, curdev, cfgerr, build, fsys, finalv >>

\* Line 192: return fail.
Item_Return ==
  /\ TopIs("item", "ret") \/ TopIs("item", "recursed")
  /\ ret' = RetInt(Top.fail)
  /\ stack' = Front(stack)
  /\ op' = NoOp
  /\ NoEmit
  /\ UNCHANGED << pstate, dir_curpath, lasterr, curdev, cfgerr, build, fsys, finalv >>

\* ---------------------------------------------------- dir_scan_recurse()
\* d points to the struct dir of the calling dir_scan_item() frame.  Neither
\* function reads it after its dir_output.item(d) call, so that call is where
\* the frame stops keeping it.
ItemD == stack[Len(stack) - 1].d
WithItemD(st, d) == [st EXCEPT ![Len(st) - 1].d = d]

\* Lines 125-127 and 133: chdir(d->name); on failure record the error, on
\* success call dir_read(&fail).
Recurse_Chdir ==
  /\ TopIs("recurse", "chdir")
  /\ \E ok \in BOOLEAN :
       /\ op' = [call |-> "chdir", ok |-> ok]
       /\ IF ok
            THEN /\ cwd' = Append(cwd, ItemD.name)
                 /\ stack' = Push(SetTop([Top EXCEPT !.pc = "read"]),
                                  [fn |-> "read", pc |-> "opendir", buf |-> << >>,
                                   seen |-> {}, err |-> Top.fail])
                 /\ UNCHANGED lasterr
            ELSE /\ lasterr' = Err(dir_curpath)
                 /\ stack' = WithItemD(SetTop([Top EXCEPT !.pc = "cf_item"]),
                                       FlagErr(ItemD))
                 /\ UNCHANGED cwd
  /\ NoEmit
  /\ UNCHANGED << ret, pstate, dir_curpath, curdev, cfgerr, build, handles,
                  unlisted, backFailed, rooted, finalv >>

\* Line 128: dir_output.item(d) after the failed chdir.
Recurse_ChdirFailItem ==
  /\ TopIs("recurse", "cf_item")
  /\ Emit(EntryEvent(ItemD))
  /\ stack' = WithItemD(SetTop([Top EXCEPT !.pc = "cf_close"]), NoDir)
  /\ op' = NoOp
  /\ UNCHANGED << ret, pstate, dir_curpath, lasterr, curdev, cfgerr, build, fsys,
                  finalv >>

\* Lines 129-130: dir_output.item(NULL); return 0.
Recurse_ChdirFailClose ==
  /\ TopIs("recurse", "cf_close")
  /\ Emit(CloseEvent)
  /\ ret' = RetInt(0)
  /\ stack' = Front(stack)
  /\ op' = NoOp
  /\ UNCHANGED << pstate, dir_curpath, lasterr, curdev, cfgerr, build, fsys, finalv >>

\* Lines 133-135: dir_read() returned NULL.
Recurse_ReadFailed ==
  /\ TopIs("recurse", "read")
  /\ ret.buf.null
  /\ lasterr' = Err(dir_curpath)
  /\ stack' = WithItemD(SetTop([Top EXCEPT !.pc = "rf_item", !.fail = ret.val]),
                        FlagErr(ItemD))
  /\ ret' = RetInt(0)
  /\ op' = NoOp
  /\ NoEmit
  /\ UNCHANGED << pstate, dir_curpath, curdev, cfgerr, build, fsys, finalv >>

\* Line 136: dir_output.item(d).
Recurse_ReadFailItem ==
  /\ TopIs("recurse", "rf_item")
  /\ Emit(EntryEvent(ItemD))
  /\ stack' = WithItemD(SetTop([Top EXCEPT !.pc = "rf_close"]), NoDir)
  /\ op' = NoOp
  /\ UNCHANGED << ret, pstate, dir_curpath, lasterr, curdev, cfgerr, build, fsys,
                  finalv >>

\* Line 137: dir_output.item(NULL).
Recurse_ReadFailClose ==
  /\ TopIs("recurse", "rf_close")
  /\ Emit(CloseEvent)
  /\ stack' = SetTop([Top EXCEPT !.pc = "rf_back"])
  /\ op' = NoOp
  /\ UNCHANGED << ret, pstate, dir_curpath, lasterr, curdev, cfgerr, build, fsys,
                  finalv >>

\* Line 138: return chdir("..") ? 1 : 0.
Recurse_ReadFailBack ==
  /\ TopIs("recurse", "rf_back")
  /\ \E ok \in BOOLEAN :
       /\ op' = [call |-> "chdir_up", ok |-> ok]
       /\ cwd' = IF ok THEN Front(cwd) ELSE cwd
       /\ backFailed' = (backFailed \/ ~ok)
       /\ ret' = RetInt(IF ok THEN 0 ELSE 1)
  /\ stack' = Front(stack)
  /\ NoEmit
  /\ UNCHANGED << pstate, dir_curpath, lasterr, curdev, cfgerr, build, handles,
                  unlisted, rooted, finalv >>

\* Mutant: a partial listing failure is not flagged on the directory.
Recurse_Open_NoErrFlag ==
  /\ TopIs("recurse", "read")
  /\ ~ret.buf.null
  /\ Emit(EntryEvent(ItemD))
  /\ stack' = Push(WithItemD(SetTop([Top EXCEPT !.pc = "close",
                                                !.fail = ret.val]), NoDir),
                   [fn |-> "walk", pc |-> "loop", dir |-> ret.buf,
                    cur |-> ret.buf, fail |-> 0])
  /\ ret' = RetInt(0)
  /\ op' = NoOp
  /\ UNCHANGED << pstate, dir_curpath, lasterr, curdev, cfgerr, build, fsys, finalv >>

\* Lines 142-146: the listing is there; flag a partial failure, emit the open
\* event and call dir_walk(dir).
Recurse_Open ==
  /\ TopIs("recurse", "read")
  /\ ~ret.buf.null
  /\ LET d == IF ret.val # 0 THEN FlagErr(ItemD) ELSE ItemD
     IN  /\ Emit(EntryEvent(d))
         /\ stack' = Push(WithItemD(SetTop([Top EXCEPT !.pc = "close",
                                                       !.fail = ret.val]), NoDir),
                          [fn |-> "walk", pc |-> "loop", dir |-> ret.buf,
                           cur |-> ret.buf, fail |-> 0])
  /\ ret' = RetInt(0)
  /\ op' = NoOp
  /\ UNCHANGED << pstate, dir_curpath, lasterr, curdev, cfgerr, build, fsys, finalv >>

\* Lines 146-147: fail = dir_walk(dir); dir_output.item(NULL).
Recurse_Close ==
  /\ TopIs("recurse", "close")
  /\ stack' = SetTop([Top EXCEPT !.pc = "back", !.fail = ret.val])
  /\ ret' = RetInt(0)
  /\ Emit(CloseEvent)
  /\ op' = NoOp
  /\ UNCHANGED << pstate, dir_curpath, lasterr, curdev, cfgerr, build, fsys, finalv >>

\* Lines 150-153: if(!fail && chdir("..")) return 1; return fail.
Recurse_Back ==
  /\ TopIs("recurse", "back")
  /\ IF Top.fail = 0
       THEN \E ok \in BOOLEAN :
              /\ op' = [call |-> "chdir_up", ok |-> ok]
              /\ cwd' = IF ok THEN Front(cwd) ELSE cwd
              /\ backFailed' = (backFailed \/ ~ok)
              /\ ret' = RetInt(IF ok THEN Top.fail ELSE 1)
       ELSE /\ op' = NoOp
            /\ ret' = RetInt(Top.fail)
            /\ UNCHANGED << cwd, backFailed >>
  /\ stack' = Front(stack)
  /\ NoEmit
  /\ UNCHANGED << pstate, dir_curpath, lasterr, curdev, cfgerr, build, handles,
                  unlisted, rooted, finalv >>

\* ------------------------------------------------------------------ Next
Next ==
  \/ dir_scan_init
  \/ Process_Resolve
  \/ Process_Stat
  \/ Process_Open
  \/ Process_Close
  \/ Process_Final
  \/ DirRead_Open
  \/ DirRead_Next
  \/ DirRead_Close
  \/ Walk_Next
  \/ Walk_ItemDone
  \/ Walk_Return
  \/ Item_Classify
  \/ Item_Recurse
  \/ Item_EmitDir
  \/ Item_Close
  \/ Item_EmitLeaf
  \/ Item_Return
  \/ Recurse_Chdir
  \/ Recurse_ChdirFailItem
  \/ Recurse_ChdirFailClose
  \/ Recurse_ReadFailed
  \/ Recurse_ReadFailItem
  \/ Recurse_ReadFailClose
  \/ Recurse_ReadFailBack
  \/ Recurse_Open
  \/ Recurse_Close
  \/ Recurse_Back

Spec == Init /\ [][Next]_vars

\* The scanner is one running thread: a step that can be taken is taken.
FairSpec == Spec /\ WF_vars(Next)

\* ============================================================== claims
ErrorEvent == ev.kind = "entry" /\ "FF_ERR" \in ev.flags
WalkFrames == { i \in 1..Len(stack) : stack[i].fn = "walk" }
\* the dir_scan_item() frame whose directory the last chdir(d->name) was for
ChdirItem == stack[IF Top.fn = "read" THEN Len(stack) - 2 ELSE Len(stack) - 1]

\* C1: the stack replay of the event stream never goes negative, and at the
\* end of the run it is at zero (as many open events as close events).
C1_WellFormedStream == balance >= 0 /\ (finals = 1 => balance = 0)

\* C2: when a change back to the parent has failed, the finalize hook is
\* called with a true (fatal) argument.
C2_FailedReturnIsFatal == (finals = 1 /\ backFailed) => final_arg # 0

\* C3: once a change back to the parent has failed, the scanner makes no
\* further stat, chdir or listing call and emits no further entry event.
C3_AbortAfterFailedReturn ==
  backFailed => (op.call \in {"none", "chdir_up"} /\ ev.kind # "entry")

\* C4: as long as no change back to a parent has failed, no dir_walk() loop
\* stops before its last name (its fail stays 0 whatever errors the entries
\* had), and the finalize hook is called with false.
C4_RecoverableNeverAborts ==
  ~backFailed =>
    /\ \A i \in WalkFrames : stack[i].fail = 0
    /\ (TopIs("walk", "loop") /\ ~WalkMore(Top)) => Top.cur.names = << >>
    /\ finals = 1 => final_arg = 0

\* C4 witness: after an error on one child of the root, a later child of the
\* root is emitted, with every change back having succeeded.
C4_Witness ==
  /\ ~backFailed
  /\ ev.kind = "entry" /\ Len(ev.path) = 1
  /\ lasterr # NoErr /\ Len(lasterr[1]) = 1 /\ lasterr[1] # ev.path

\* C5: every run ends with exactly one dir_output.final() call, made after
\* the close event of dir_scan_process() with nothing left on the call stack,
\* and no event is emitted after it.
C5_FinalizeOnce ==
  /\ <>(finals = 1)
  /\ [](finals <= 1)
  /\ [](finals = 1 => (last = "close" /\ stack = << >>))
  /\ [](ev.kind # "none" => finals = 0)

\* C5 witness: a run with a failed change back and a recorded error has ended.
C5_Witness == finals = 1 /\ backFailed /\ lasterr # NoErr

\* C6: after a configuration error (root not resolved, not entered, not
\* statted, not a directory) no event is emitted and no child is walked.
C6_ConfigErrorStopsScan ==
  cfgerr => (last = "none" /\ WalkFrames = {})

\* C7 as claimed: an excluded directory is emitted as an entry event flagged
\* FF_EXL followed directly by its close event.
C7_ExcludedDirClosed ==
  (TopIs("item", "ret") /\ "FF_EXL" \in Top.d.flags /\ Top.isdir) =>
    /\ ev.kind = "close"
    /\ ev.closed # << >>
    /\ ev.closed[1].path = dir_curpath
    /\ "FF_EXL" \in ev.closed[1].flags
    /\ ev.closed[1].kids = << >>

\* C7 as amended: an excluded entry is never changed into, is never an open
\* node (so no event is emitted below it), and is emitted as one entry event
\* flagged FF_EXL with neither type flag and zero sizes, which no close event
\* follows.
C7_ExcludedIsLeaf ==
  /\ op.call = "chdir" => "FF_EXL" \notin ChdirItem.d.flags
  /\ \A i \in 1..Len(open_stack) : "FF_EXL" \notin open_stack[i].flags
  /\ (ev.kind = "close" /\ ev.closed # << >>) => "FF_EXL" \notin ev.closed[1].flags
  /\ (stack # << >> /\ Top.fn = "item" /\ Top.pc \in {"dispatch", "close", "ret"}
        /\ "FF_EXL" \in Top.d.flags) =>
       /\ Top.pc # "close"
       /\ Top.pc = "ret" =>
            /\ ev.kind = "entry"
            /\ ev.path = dir_curpath
            /\ ev.name = Top.d.name
            /\ "FF_EXL" \in ev.flags
            /\ ev.flags \cap {"FF_DIR", "FF_FILE"} = {}
            /\ ev.size = 0 /\ ev.asize = 0

\* C7 witness: an excluded name that is a directory has been emitted.
C7_Witness ==
  TopIs("item", "ret") /\ "FF_EXL" \in Top.d.flags /\ Top.isdir /\ ev.kind = "entry"

\* C8: an entry emitted with FF_EXL or FF_OTHFS has size 0 and asize 0.
C8_SuppressedSizes ==
  (ev.kind = "entry" /\ ev.flags \cap {"FF_EXL", "FF_OTHFS"} # {}) =>
    (ev.size = 0 /\ ev.asize = 0)

\* C8 witness: an object on another device, with blocks and a length, has
\* been emitted flagged FF_OTHFS.
C8_Witness ==
  /\ ev.kind = "entry" /\ "FF_OTHFS" \in ev.flags
  /\ MaxBlocks > 0 /\ MaxSize > 0

\* C9 as claimed: an entry emitted with FF_ERR has zero sizes and neither
\* FF_FILE nor FF_DIR (stated for the entries below the root).
C9_ErrorUntypedZero ==
  (ErrorEvent /\ ev.path # RootPath) =>
    (ev.size = 0 /\ ev.asize = 0 /\ ev.flags \cap {"FF_FILE", "FF_DIR"} = {})

\* C9 as amended: an entry flagged FF_ERR by dir_scan_item() (failed stat,
\* illegal name) has zero sizes and no type flag; an entry flagged FF_ERR
\* because the chdir into it, its opendir or its listing failed was statted
\* before and keeps FF_DIR and the sizes of its stat, and so does the root keep
\* its sizes.
C9_ErrorEntries ==
  ErrorEvent =>
    IF TopIs("item", "ret")
      THEN ev.size = 0 /\ ev.asize = 0 /\ ev.flags \cap {"FF_FILE", "FF_DIR"} = {}
      ELSE /\ ev.size = MaxBlocks * S_BLKSIZE
           /\ ev.asize = MaxSize
           /\ ev.path # RootPath =>
                ("FF_DIR" \in ev.flags /\ "FF_FILE" \notin ev.flags)

\* C9 witness: an entry whose stat failed has been emitted.
C9_Witness ==
  ErrorEvent /\ TopIs("item", "ret") /\ ~HasSeparator(ev.name)

\* C10: when an entry below the root is emitted with FF_ERR, the last-error
\* sink holds that entry's path: dir_setlasterr(dir_curpath) came first.
C10_ErrorRecorded ==
  (ErrorEvent /\ ev.path # RootPath) => lasterr = Err(ev.path)

\* The directory a dir_walk() frame lists: its nesting depth among the walks,
\* its path, the open nodes of the consumer that carry this path, and whether
\* the children the consumer got for a node are the names the walk is past.
WalkDepth(k) == Cardinality({ i \in WalkFrames : i <= k })
WalkPath(k) == SubSeq(dir_curpath, 1, WalkDepth(k) - 1)
NodesAt(path) == { i \in 1..Len(open_stack) : open_stack[i].path = path }
WalkedSoFar(f, node) ==
  /\ \/ node.kids \o f.cur.names = f.dir.names
     \/ f.pc = "item" /\ node.kids \o Tail(f.cur.names) = f.dir.names
  /\ (f.pc = "loop" /\ ~WalkMore(f)) => node.kids = f.dir.names

\* C11: a directory whose listing was opened and failed partway (dir_read()
\* returned a list with *err set) is an open node flagged FF_ERR while its
\* names are walked, and the children emitted under it are the names of the
\* list, all of them when the walk ends.  For a directory entered by
\* dir_scan_recurse() the open node is there; the root is held to the same
\* whenever it was opened.
C11_PartialListingWalked ==
  \A k \in WalkFrames :
    (stack[k - 1].fail # 0 /\ ~stack[k].dir.null) =>
      /\ stack[k - 1].fn = "recurse" => NodesAt(WalkPath(k)) # {}
      /\ \A i \in NodesAt(WalkPath(k)) :
           /\ "FF_ERR" \in open_stack[i].flags
           /\ WalkedSoFar(stack[k], open_stack[i])

\* C11 witness: the walk of a partially listed subdirectory with at least one
\* collected name has reached the end of its list.
C11_Witness ==
  \E k \in WalkFrames :
    /\ stack[k - 1].fn = "recurse" /\ stack[k - 1].fail # 0
    /\ stack[k].dir.names # << >>
    /\ stack[k].pc = "loop" /\ stack[k].cur.names = << >>

\* C12: a directory below the root whose st_dev differs from curdev: with
\* dir_scan_smfs set it is flagged FF_OTHFS, no chdir into it is made, and it
\* is emitted as an open event followed directly by its close event, with no
\* child; with dir_scan_smfs clear it is not flagged and dir_scan_recurse() is
\* called for it as for any other directory.
C12_DeviceBoundary ==
  /\ (TopIs("item", "dispatch") /\ "FF_DIR" \in Top.d.flags /\ Top.d.dev # curdev) =>
       IF dir_scan_smfs
         THEN "FF_OTHFS" \in Top.d.flags /\ ~Recursible(Top.d)
         ELSE "FF_OTHFS" \notin Top.d.flags /\ Recursible(Top.d)
  /\ op.call = "chdir" => "FF_OTHFS" \notin ChdirItem.d.flags
  /\ \A i \in 1..Len(open_stack) :
       "FF_OTHFS" \in open_stack[i].flags => open_stack[i].kids = << >>
  /\ TopIs("item", "close") =>
       /\ dir_scan_smfs /\ Top.d.dev # curdev
       /\ ev.kind = "entry" /\ ev.path = dir_curpath
       /\ {"FF_DIR", "FF_OTHFS"} \subseteq ev.flags
  /\ (TopIs("item", "ret") /\ {"FF_DIR", "FF_OTHFS"} \subseteq Top.d.flags) =>
       /\ ev.kind = "close" /\ ev.closed # << >>
       /\ ev.closed[1].path = dir_curpath
       /\ ev.closed[1].kids = << >>
  /\ (ev.kind = "entry" /\ ~dir_scan_smfs) => "FF_OTHFS" \notin ev.flags

\* C12 witness: a directory on another device has been emitted and closed
\* without being entered.
C12_Witness ==
  /\ TopIs("item", "ret") /\ {"FF_DIR", "FF_OTHFS"} \subseteq Top.d.flags
  /\ Top.d.dev # curdev /\ ev.kind = "close"

\* C13: at most one DIR* handle is open at any time, and one is open only
\* inside dir_read() between its opendir() and its closedir(): none is open
\* when a chdir or a stat is made, when an event is emitted, or when
\* dir_scan_item() starts on a name.
C13_OneListingHandle ==
  /\ handles \in {0, 1}
  /\ handles = 1 => (stack # << >> /\ Top.fn = "read" /\ Top.pc \in {"readdir", "closedir"})
  /\ op.call \in {"chdir", "chdir_up", "lstat", "path_chdir"} => handles = 0
  /\ ev.kind # "none" => handles = 0
  /\ TopIs("item", "classify") => handles = 0

\* C13 witness: the listing of a subdirectory has failed partway and its
\* handle is still to be closed.
C13_Witness ==
  /\ TopIs("read", "closedir") /\ Top.err = 1 /\ Top.buf # << >>
  /\ handles = 1 /\ Len(cwd) >= 1

ItemFrames == { i \in 1..Len(stack) : stack[i].fn = "item" }
\* the nodes that are open above the entry emitted last: every open node but
\* the entry itself and the root
OpenAncestors ==
  LET os == IF "FF_DIR" \in ev.flags THEN Front(open_stack) ELSE open_stack
  IN  SelectSeq(os, LAMBDA n : n.path # RootPath)

\* C14: the path stack nests with the walk: it holds one name for every
\* dir_scan_item() call in progress (the name is taken off again right after
\* the call returns, whatever happened in it); when an entry below the root is
\* emitted the path stack is the names of its open ancestors followed by its
\* own name; and once the root's children are walked it is the root path.
C14_PathStackNests ==
  /\ Len(dir_curpath) =
       Cardinality(ItemFrames) + (IF TopIs("walk", "item") THEN 1 ELSE 0)
  /\ (ev.kind = "entry" /\ ev.path # RootPath) =>
       /\ ev.path = dir_curpath
       /\ ev.name = dir_curpath[Len(dir_curpath)]
       /\ Len(dir_curpath) = Len(OpenAncestors) + 1
       /\ \A i \in 1..Len(OpenAncestors) :
            OpenAncestors[i].path = SubSeq(dir_curpath, 1, i)
  /\ (TopIs("process", "close") \/ TopIs("process", "final") \/ finals = 1) =>
       dir_curpath = RootPath

\* C14 witness: an entry two levels below the root has been emitted.
C14_Witness ==
  ev.kind = "entry" /\ Len(dir_curpath) = 2 /\ Len(OpenAncestors) = 1

\* C15: when the lstat() of an entry succeeded, FF_HLNKC is set on it exactly
\* when the object is not a directory and st_nlink > 1; the flags are emitted
\* as set; and no entry is emitted with both FF_DIR and FF_HLNKC.
C15_HardLinkCandidate ==
  /\ (TopIs("item", "dispatch") /\ op.call = "lstat" /\ op.ok) =>
       ("FF_HLNKC" \in Top.d.flags <=> (op.st.mode # "DIR" /\ op.st.nlink > 1))
  /\ (TopIs("item", "ret") /\ ev.kind = "entry") => ev.flags = Top.d.flags
  /\ ev.kind = "entry" => ~({"FF_DIR", "FF_HLNKC"} \subseteq ev.flags)

\* C15 witness: a directory with more than one link has been statted.
C15_Witness ==
  /\ TopIs("item", "dispatch") /\ op.call = "lstat" /\ op.ok
  /\ op.st.mode = "DIR" /\ op.st.nlink > 1

\* C16: in a run where no change back to a parent has failed, the children
\* the consumer got directly under the open node of a listed directory are,
\* in order, the names of the list dir_read() returned that dir_walk() is
\* past, and all of them when the walk ends: none dropped, doubled or moved.
C16_ChildrenInListingOrder ==
  ~backFailed =>
    \A k \in WalkFrames :
      /\ stack[k - 1].fn = "recurse" => Cardinality(NodesAt(WalkPath(k))) = 1
      /\ \A i \in NodesAt(WalkPath(k)) :
           /\ WalkedSoFar(stack[k], open_stack[i])
           /\ Len(open_stack[i].kids) <= Len(stack[k].dir.names)
           /\ \A j \in 1..Len(open_stack[i].kids) :
                open_stack[i].kids[j] = stack[k].dir.names[j]

\* C16 witness: a listing of two names has been walked to its end with every
\* change back succeeding.
C16_Witness ==
  /\ ~backFailed
  /\ \E k \in WalkFrames :
       /\ Len(stack[k].dir.names) = 2
       /\ stack[k].pc = "loop" /\ stack[k].cur.names = << >>
       /\ \E i \in NodesAt(WalkPath(k)) : open_stack[i].kids = stack[k].dir.names

RootEvent == ev.kind = "entry" /\ ev.path = RootPath

\* C18: the root entry is never emitted with FF_OTHFS and always carries the
\* sizes of its stat buffer, whatever dir_scan_smfs is and whatever curdev
\* held before; curdev is written only by dir_scan_process() between its
\* dir_read() call and the root's event, and never afterwards.
C18_RootOnOwnDevice ==
  /\ [](RootEvent =>
         /\ "FF_OTHFS" \notin ev.flags
         /\ ev.size = MaxBlocks * S_BLKSIZE /\ ev.asize = MaxSize)
  /\ [][curdev' # curdev => (TopIs("process", "read") /\ RootEvent')]_vars

\* C18 witness: the root has been emitted with the policy on and a device id
\* other than the initial value of a dev_t.
C18_Witness == RootEvent /\ dir_scan_smfs /\ curdev = MaxDev /\ ev.size > 0

\* C19: every close event closes a node that was emitted with FF_DIR (the
\* consumer has one open), every node emitted with FF_DIR is closed by the end
\* of the run, and the close events of dir_scan_item(), dir_scan_recurse() and
\* dir_scan_process() close the entry these functions emitted themselves, so
\* that an entry emitted without FF_DIR is never followed by a close of its
\* own; for the root as for the walked entries.
C19_CloseMatchesIsDirectory ==
  /\ ev.kind = "close" =>
       /\ ev.closed # << >>
       /\ "FF_DIR" \in ev.closed[1].flags
       /\ ev.closed[1].path = dir_curpath
  /\ finals = 1 => open_stack = << >>
  /\ TopIs("process", "final") => (ev.kind = "close" /\ dir_curpath = RootPath)
  /\ (TopIs("item", "ret") /\ ev.kind = "entry") => "FF_DIR" \notin ev.flags

====
